---- MODULE Spec2Model ----
(***************************************************************************)
(* Model of the spotify_graph crawler core: the breadth-first crawler      *)
(* (crawlers/crawler.py), the in-memory GraphRepository                    *)
(* (storage/repository.py) and the tiered JsonGraphStore                   *)
(* (storage/json_store.py).                                                *)
(*                                                                         *)
(* A Profile is a record of the fields the crawl logic reads or merges:    *)
(* id, followers, is_private and the three follower-fetch flags.  An       *)
(* Optional[int] is a sequence: <<>> for None, <<n>> for the integer n.    *)
(* A Relationship is a record source_id, target_id, relation_type,         *)
(* discovered_at; discovered_at is the reading of a clock that ticks at    *)
(* every Relationship construction.  display_name, following, the URLs and *)
(* last_seen_at are carried by the code but never read by the crawl, merge *)
(* or persistence decisions, and are left out of the records.              *)
(*                                                                         *)
(* Spec runs whole processes: a repository is loaded from the store, crawl *)
(* walks the queue one node per step, the caller persists.                 *)
(* SpecRepoProfiles, SpecRepoEdges and SpecStore call the public methods   *)
(* of GraphRepository and JsonGraphStore directly with arbitrary           *)
(* arguments.                                                              *)
(***************************************************************************)
EXTENDS Integers, Sequences, FiniteSets, TLC

\* ---------------------------------------------------------------- bounds
\* number of process invocations (scrape runs) explored
MaxRuns == 2
\* largest max_depth argument handed to crawl
MaxDepth == 2

\* ------------------------------------------------------------ the world
Ids == {"A", "B", "C"}

None == <<>>

Some(n) == <<n>>

\* follower counts an overview page can show (None: no count link found)
CountValues == {None, Some(5), Some(50), Some(300), Some(5000)}

\* the follower count the overview page of each account can show
CountChoices ==
  [A |-> {None, Some(50), Some(5000)},
   B |-> {None, Some(5), Some(300)},
   C |-> {Some(5), Some(300), Some(5000)}]

\* follower lists the followers page of each account can show
ListChoices ==
  [A |-> {<<"B", "C">>, <<"B">>},
   B |-> {<<>>, <<"C">>, <<"A", "C">>},
   C |-> {<<>>, <<"B">>}]

Webs ==
  {w \in [count : [Ids -> CountValues], list : [Ids -> UNION {ListChoices[i] : i \in Ids}]] :
     \A i \in Ids : w.list[i] \in ListChoices[i] /\ w.count[i] \in CountChoices[i]}

\* Settings defaults (config.py)
DefaultCrawlMaxDepth == 1
DefaultFollowerThreshold == 1000
DefaultFollowersDownloadLimit == 250

SettingsChoices ==
  {[crawl_max_depth |-> DefaultCrawlMaxDepth,
    follower_threshold |-> DefaultFollowerThreshold,
    followers_download_limit |-> DefaultFollowersDownloadLimit]}

\* ------------------------------------------------------------ data model
\* models/profile.py Profile: the defaults of a freshly constructed record
Profile(id, followers, is_private) ==
  [id |-> id, followers |-> followers, is_private |-> is_private,
   followers_fetch_attempted |-> FALSE,
   followers_fetched |-> FALSE,
   followers_oversized |-> FALSE]

\* models/profile.py Relationship
Relationship(source_id, target_id, relation_type, discovered_at) ==
  [source_id |-> source_id, target_id |-> target_id,
   relation_type |-> relation_type, discovered_at |-> discovered_at]

\* Python truthiness of an Optional[int]: None and 0 are falsy
Truthy(opt) == opt # None /\ opt[1] # 0

\* an empty dict of profiles
EmptyMap == [i \in {} |-> Profile("A", None, FALSE)]

\* the logical identity of an edge
Triple(e) == <<e.source_id, e.target_id, e.relation_type>>

\* ------------------------------------------------------ GraphRepository
\* GraphRepository.find_profile: the record, or None as the empty sequence
find_profile(profiles, profile_id) ==
  IF profile_id \in DOMAIN profiles THEN <<profiles[profile_id]>> ELSE <<>>

\* upsert_profile with the OR of the flags left out
upsert_profile_overwrite(profiles, profile) ==
  [i \in DOMAIN profiles \cup {profile.id} |->
     IF i = profile.id THEN profile ELSE profiles[i]]

\* an upsert that only updates the records the repository already holds
upsert_profile_known_only(profiles, profile) ==
  IF profile.id \in DOMAIN profiles
  THEN [profiles EXCEPT ![profile.id] = profile]
  ELSE profiles

\* GraphRepository.upsert_profile
upsert_profile(profiles, profile) ==
  LET merged ==
        IF profile.id \in DOMAIN profiles
        THEN [profile EXCEPT
                !.followers_fetch_attempted =
                   profile.followers_fetch_attempted
                   \/ profiles[profile.id].followers_fetch_attempted,
                !.followers_fetched =
                   profile.followers_fetched
                   \/ profiles[profile.id].followers_fetched]
        ELSE profile
  IN [i \in DOMAIN profiles \cup {profile.id} |->
        IF i = profile.id THEN merged ELSE profiles[i]]

\* GraphRepository.bulk_add_profiles
RECURSIVE bulk_add_profiles(_, _)
bulk_add_profiles(profiles, incoming) ==
  IF incoming = <<>> THEN profiles
  ELSE bulk_add_profiles(upsert_profile(profiles, Head(incoming)), Tail(incoming))

\* whether a structurally equal edge (all four fields) is in the list
EdgeIn(edge, edges) == \E k \in 1..Len(edges) : edges[k] = edge

\* GraphRepository.add_edge
add_edge(edges, edge) ==
  IF ~EdgeIn(edge, edges) THEN Append(edges, edge) ELSE edges

\* GraphRepository.bulk_add_edges
RECURSIVE bulk_add_edges(_, _)
bulk_add_edges(edges, incoming) ==
  IF incoming = <<>> THEN edges
  ELSE bulk_add_edges(add_edge(edges, Head(incoming)), Tail(incoming))

\* get_followers, first scan: the source ids of the follower edges into profile_id
RECURSIVE follower_ids(_, _)
follower_ids(edges, profile_id) ==
  IF edges = <<>> THEN <<>>
  ELSE LET e == Head(edges)
           rest == follower_ids(Tail(edges), profile_id)
       IN IF e.relation_type = "follower" /\ e.target_id = profile_id
          THEN <<e.source_id>> \o rest
          ELSE rest

\* get_followers, second scan: the stored records of the ids that have one
RECURSIVE LookupAll(_, _)
LookupAll(profiles, ids) ==
  IF ids = <<>> THEN <<>>
  ELSE LET rest == LookupAll(profiles, Tail(ids))
       IN IF Head(ids) \in DOMAIN profiles
          THEN <<profiles[Head(ids)]>> \o rest
          ELSE rest

\* GraphRepository.get_followers
get_followers(profiles, edges, profile_id) ==
  LookupAll(profiles, follower_ids(edges, profile_id))

\* the targets of the loaded follower edges (keys of follower_map)
FollowerTargets(edges) ==
  {edges[k].target_id : k \in {j \in 1..Len(edges) : edges[j].relation_type = "follower"}}

\* the backfill that marks the attempt only
BackfillAttemptedOnly(profiles, edges) ==
  [i \in DOMAIN profiles |->
     IF i \in FollowerTargets(edges)
     THEN [profiles[i] EXCEPT !.followers_fetch_attempted = TRUE]
     ELSE profiles[i]]

\* GraphRepository.__post_init__: the backfill of the flags after loading
Backfill(profiles, edges) ==
  [i \in DOMAIN profiles |->
     IF i \in FollowerTargets(edges)
     THEN [profiles[i] EXCEPT !.followers_fetch_attempted = TRUE,
                              !.followers_fetched = TRUE]
     ELSE profiles[i]]

\* -------------------------------------------------------- JsonGraphStore
\* a JSON file of the store: whether it exists, and the payload it holds
NoProfilesFile == [exists |-> FALSE, data |-> EmptyMap]

NoEdgesFile == [exists |-> FALSE, data |-> <<>>]

ProfilesFile(payload) == [exists |-> TRUE, data |-> payload]

EdgesFile(payload) == [exists |-> TRUE, data |-> payload]

\* the store directory before the first run: no file in any tier
EmptyStore ==
  [profiles |-> NoProfilesFile, edges |-> NoEdgesFile,
   master_profiles |-> NoProfilesFile, master_edges |-> NoEdgesFile,
   flat_profiles |-> NoProfilesFile, flat_edges |-> NoEdgesFile]

\* the migration that moves a flat file over an existing master file
migrate_flat_files_overwrite(st) ==
  LET moved ==
        IF st.flat_profiles.exists
        THEN [st EXCEPT !.master_profiles = st.flat_profiles,
                        !.flat_profiles = NoProfilesFile]
        ELSE st
  IN IF moved.flat_edges.exists
     THEN [moved EXCEPT !.master_edges = moved.flat_edges,
                        !.flat_edges = NoEdgesFile]
     ELSE moved

\* JsonGraphStore._migrate_flat_files: flat_profiles and flat_edges are
\* profiles.json and edges.json at the top of the directory; shutil.move
\* makes the flat file the master file
migrate_flat_files(st) ==
  LET moved ==
        IF st.flat_profiles.exists /\ ~st.master_profiles.exists
        THEN [st EXCEPT !.master_profiles = st.flat_profiles,
                        !.flat_profiles = NoProfilesFile]
        ELSE st
  IN IF moved.flat_edges.exists /\ ~moved.master_edges.exists
     THEN [moved EXCEPT !.master_edges = moved.flat_edges,
                        !.flat_edges = NoEdgesFile]
     ELSE moved

\* JsonGraphStore._read_json
read_json(file, default) == IF ~file.exists THEN default ELSE file.data

\* JsonGraphStore.load_profiles
load_profiles(st) ==
  LET path == IF st.master_profiles.exists THEN st.master_profiles ELSE st.profiles
  IN IF ~path.exists THEN EmptyMap ELSE path.data

\* JsonGraphStore.load_edges
load_edges(st) ==
  LET path == IF st.master_edges.exists THEN st.master_edges ELSE st.edges
  IN IF ~path.exists THEN <<>> ELSE path.data

\* which load of the construction raises, if any
LoadRaises == {"none", "load_profiles", "load_edges"}

\* the file load_profiles and load_edges read
ProfilesPath(st) == IF st.master_profiles.exists THEN st.master_profiles ELSE st.profiles

EdgesPath(st) == IF st.master_edges.exists THEN st.master_edges ELSE st.edges

\* a load can raise only on a file that exists (a missing file gives the
\* empty default)
CanRaise(st, raises) ==
  /\ raises = "load_profiles" => ProfilesPath(st).exists
  /\ raises = "load_edges" => EdgesPath(st).exists

\* the except branch that empties only what failed to load
post_init_keep_loaded(st, raises) ==
  IF raises = "load_profiles"
  THEN [profiles |-> EmptyMap, edges |-> <<>>]
  ELSE IF raises = "load_edges"
  THEN [profiles |-> load_profiles(st), edges |-> <<>>]
  ELSE [profiles |-> Backfill(load_profiles(st), load_edges(st)),
        edges |-> load_edges(st)]

\* GraphRepository.__post_init__: the repository after construction on st;
\* a raise of either load is caught and leaves both collections empty
post_init(st, raises) ==
  IF raises # "none"
  THEN [profiles |-> EmptyMap, edges |-> <<>>]
  ELSE [profiles |-> Backfill(load_profiles(st), load_edges(st)),
        edges |-> load_edges(st)]

\* a dict merge in which the keys already in master keep their value
DictUpdateKeepOld(master, serialized) ==
  [i \in DOMAIN master \cup DOMAIN serialized |->
     IF i \in DOMAIN master THEN master[i] ELSE serialized[i]]

\* dict.update: keys of the argument overwrite, the other keys stay
DictUpdate(master, serialized) ==
  [i \in DOMAIN master \cup DOMAIN serialized |->
     IF i \in DOMAIN serialized THEN serialized[i] ELSE master[i]]

\* JsonGraphStore.save_profiles
save_profiles(st, profiles) ==
  LET serialized == profiles
      master == read_json(st.master_profiles, EmptyMap)
  IN [st EXCEPT !.profiles = ProfilesFile(serialized),
                !.master_profiles = ProfilesFile(DictUpdate(master, serialized))]

\* the set of keys of the entries of an edge payload
EntryKeys(entries) == {Triple(entries[k]) : k \in 1..Len(entries)}

\* the merge loop of save_edges with the key test left out
RECURSIVE MergeEdgesAppendAll(_, _)
MergeEdgesAppendAll(master, serialized) ==
  IF serialized = <<>> THEN master
  ELSE MergeEdgesAppendAll(Append(master, Head(serialized)), Tail(serialized))

\* the merge loop of save_edges: append the entries whose key is new
RECURSIVE MergeEdges(_, _)
MergeEdges(master, serialized) ==
  IF serialized = <<>> THEN master
  ELSE LET entry == Head(serialized)
       IN IF Triple(entry) \notin EntryKeys(master)
          THEN MergeEdges(Append(master, entry), Tail(serialized))
          ELSE MergeEdges(master, Tail(serialized))

\* JsonGraphStore.save_edges
save_edges(st, edges) ==
  LET serialized == edges
      master == read_json(st.master_edges, <<>>)
  IN [st EXCEPT !.edges = EdgesFile(serialized),
                !.master_edges = EdgesFile(MergeEdges(master, serialized))]

\* save_profiles, line 86: the write of the current file
write_current_profiles(st, serialized) ==
  [st EXCEPT !.profiles = ProfilesFile(serialized)]

\* save_profiles, line 88: the read of the master file
read_master_profiles(st) == read_json(st.master_profiles, EmptyMap)

\* the write of the master file with the payload alone, what was read dropped
write_master_profiles_unmerged(st, master, serialized) ==
  [st EXCEPT !.master_profiles = ProfilesFile(serialized)]

\* save_profiles, lines 89-90: the merge into what was read and the write of
\* the master file
write_master_profiles(st, master, serialized) ==
  [st EXCEPT !.master_profiles = ProfilesFile(DictUpdate(master, serialized))]

\* save_edges, line 95: the write of the current file
write_current_edges(st, serialized) ==
  [st EXCEPT !.edges = EdgesFile(serialized)]

\* save_edges, line 97: the read of the master file
read_master_edges(st) == read_json(st.master_edges, <<>>)

\* save_edges, lines 98-104: the merge into what was read and the write of
\* the master file
write_master_edges(st, master, serialized) ==
  [st EXCEPT !.master_edges = EdgesFile(MergeEdges(master, serialized))]

\* the processes that may run persist on one directory at the same time
Procs == {"p", "q"}

\* a process outside persist
IdleWriter ==
  [pc |-> "idle", profiles |-> EmptyMap, edges |-> <<>>,
   master_profiles |-> EmptyMap, master_edges |-> <<>>]

NoWriters == [proc |-> [w \in Procs |-> IdleWriter], overlapped |-> FALSE]

\* a persist that writes nothing
persist_skipped(st, profiles, edges) == st

\* GraphRepository.persist
persist(st, profiles, edges) == save_edges(save_profiles(st, profiles), edges)

\* the archive directory of the store's timestamp before archive_snapshot
\* made it
NoArchive == [exists |-> FALSE, profiles |-> NoProfilesFile, edges |-> NoEdgesFile]

\* the snapshot copy made on every call, the _archived flag ignored
archive_snapshot_every_call(st, arch, done) ==
  [archive |-> [exists |-> TRUE,
                profiles |-> IF st.profiles.exists THEN st.profiles ELSE arch.profiles,
                edges |-> IF st.edges.exists THEN st.edges ELSE arch.edges],
   archived |-> TRUE]

\* JsonGraphStore.archive_snapshot: arch is the archive directory, done is
\* self._archived; the copy is skipped for a current file that does not exist
archive_snapshot(st, arch, done) ==
  IF done
  THEN [archive |-> arch, archived |-> done]
  ELSE [archive |-> [exists |-> TRUE,
                     profiles |-> IF st.profiles.exists THEN st.profiles ELSE arch.profiles,
                     edges |-> IF st.edges.exists THEN st.edges ELSE arch.edges],
        archived |-> TRUE]

\* -------------------------------------------------- ProfilePageScraper
\* ProfilePageScraper._profile_from_card: a card carries an id and no count
profile_from_card(profile_id) == Profile(profile_id, None, FALSE)

RECURSIVE Cards(_)
Cards(ids) ==
  IF ids = <<>> THEN <<>>
  ELSE <<profile_from_card(Head(ids))>> \o Cards(Tail(ids))

\* ProfilePageScraper.fetch_profile_overview on a page that loads
fetch_profile_overview(w, profile_id, is_private) ==
  Profile(profile_id, w.count[profile_id], is_private)

\* what one fetch_profile call meets: the overview request raises, the
\* overview shows the private notice, or the overview is public and the
\* followers request raises, is inaccessible, or returns the list
FetchOutcomes ==
  {"overview_raises", "private", "connections_raise", "inaccessible", "accessible"}

\* --------------------------------------------------- SpotifyGraphCrawler
\* crawl, line 34: max_depth or settings.crawl_max_depth
DepthLimit(max_depth, st) ==
  IF max_depth # 0 THEN max_depth ELSE st.crawl_max_depth

\* the download limit test with a strict comparison
OverDownloadLimitStrict(profile, st) ==
  /\ profile.followers # None
  /\ st.followers_download_limit # 0
  /\ profile.followers[1] > st.followers_download_limit

\* fetch_profile, lines 132-137: the download limit test
OverDownloadLimit(profile, st) ==
  /\ profile.followers # None
  /\ st.followers_download_limit # 0
  /\ profile.followers[1] >= st.followers_download_limit

\* fetch_profile, lines 171-176: an accessible followers list
AccessibleResult(profile, neighbors) ==
  [profile |-> [profile EXCEPT !.followers_fetch_attempted = TRUE,
                               !.followers_fetched = TRUE],
   connections |-> IF neighbors # <<>>
                   THEN << <<"followers", neighbors>> >>
                   ELSE <<>>]

\* the followers request where an inaccessible list leaves is_private alone
ConnectionsResultKeepPublic(profile, outcome, neighbors) ==
  IF outcome = "connections_raise"
  THEN [profile |-> profile, connections |-> <<>>]
  ELSE IF outcome = "inaccessible"
  THEN [profile |-> [profile EXCEPT !.followers_fetch_attempted = TRUE],
        connections |-> <<>>]
  ELSE AccessibleResult(profile, neighbors)

\* fetch_profile, lines 153-181: the followers request and what it leaves
\* on the profile
ConnectionsResult(profile, outcome, neighbors) ==
  IF outcome = "connections_raise"
  THEN [profile |-> profile, connections |-> <<>>]
  ELSE IF outcome = "inaccessible"
  THEN [profile |-> [profile EXCEPT !.is_private = TRUE,
                                    !.followers_fetch_attempted = TRUE],
        connections |-> <<>>]
  ELSE AccessibleResult(profile, neighbors)

\* SpotifyGraphCrawler.fetch_profile, for an overview request that returned
fetch_profile(profiles, st, w, profile_id, outcome) ==
  LET overview == fetch_profile_overview(w, profile_id, outcome = "private")
      existing == find_profile(profiles, profile_id)
      profile ==
        IF existing # <<>>
        THEN [overview EXCEPT
                !.followers_fetch_attempted = existing[1].followers_fetch_attempted,
                !.followers_fetched = existing[1].followers_fetched,
                !.followers_oversized = existing[1].followers_oversized]
        ELSE overview
      neighbors == Cards(w.list[profile_id])
  IN IF OverDownloadLimit(profile, st)
     THEN [profile |-> [profile EXCEPT !.followers_fetch_attempted = TRUE,
                                       !.followers_oversized = TRUE],
           connections |-> <<>>]
     ELSE IF profile.is_private
     THEN [profile |-> [profile EXCEPT !.followers_fetch_attempted = TRUE],
           connections |-> <<>>]
     ELSE ConnectionsResult(profile, outcome, neighbors)

\* the cache test without the followers_fetch_attempted flag
UseCacheAnyRecord(cached_profile) ==
  cached_profile # <<>>

\* crawl, line 52: whether the pass works from the repository alone
UseCache(cached_profile) ==
  cached_profile # <<>> /\ cached_profile[1].followers_fetch_attempted

\* the handler of a failed fetch that goes on with a placeholder profile
AfterFetchFailurePlaceholder(cached_profile, profile_id) ==
  [profile |-> IF cached_profile # <<>> THEN cached_profile
               ELSE <<Profile(profile_id, None, FALSE)>>,
   connections |-> <<>>]

\* crawl, lines 68-74: the handler of a failed fetch; profile <<>> is the
\* continue of line 74
AfterFetchFailure(cached_profile, profile_id) ==
  [profile |-> cached_profile, connections |-> <<>>]

\* the pass served from the repository without the stored followers
FromCacheNoFollowers(profiles, edges, cached_profile, profile_id) ==
  [profile |-> cached_profile, connections |-> <<>>]

\* crawl, lines 53-59: the pass served from the repository
FromCache(profiles, edges, cached_profile, profile_id) ==
  [profile |-> cached_profile,
   connections |-> IF cached_profile[1].followers_fetched
                   THEN << <<"followers", get_followers(profiles, edges, profile_id)>> >>
                   ELSE <<>>]

\* the enqueue at the left end of the deque
EnqueueLeft(q, item) ==
  <<item>> \o q

\* crawl, line 114: queue.append
Enqueue(q, item) ==
  Append(q, item)

\* crawl, lines 76 and 90: the follower threshold test
OverThreshold(profile, st) ==
  Truthy(profile.followers) /\ profile.followers[1] >= st.follower_threshold

\* the edge of lines 96-109 built with the branch of the other relation
MakeEdgeOtherBranch(relation, profile, neighbor, now) ==
  IF relation # "following"
  THEN Relationship(profile.id, neighbor.id, "following", now)
  ELSE Relationship(neighbor.id, profile.id, "follower", now)

\* crawl, lines 96-109: the edge for one neighbour
MakeEdge(relation, profile, neighbor, now) ==
  IF relation = "following"
  THEN Relationship(profile.id, neighbor.id, "following", now)
  ELSE Relationship(neighbor.id, profile.id, "follower", now)

\* the test of line 113 without the depth limit
ShouldEnqueueAnyDepth(depth, depth_limit, next_id, vis, qd) ==
  next_id \notin vis /\ next_id \notin qd

\* the test of line 113 without the queued set
ShouldEnqueueAgain(depth, depth_limit, next_id, vis, qd) ==
  depth + 1 <= depth_limit /\ next_id \notin vis

\* crawl, line 113: whether the neighbour is enqueued
ShouldEnqueue(depth, depth_limit, next_id, vis, qd) ==
  depth + 1 <= depth_limit /\ next_id \notin vis /\ next_id \notin qd

\* crawl, lines 89-115: the loop over the neighbours of one relation; acc
\* carries the repository profiles, edges_to_add, the queue, queued, the
\* clock and the record of which discovery made which edge
RECURSIVE ProcessNeighbors(_, _, _, _, _, _, _, _)
ProcessNeighbors(relation, neighbors, profile, depth, depth_limit, st, vis, acc) ==
  IF neighbors = <<>> THEN acc
  ELSE LET neighbor == Head(neighbors)
           rest == Tail(neighbors)
       IN IF OverThreshold(neighbor, st)
          THEN ProcessNeighbors(relation, rest, profile, depth, depth_limit, st, vis, acc)
          ELSE LET edge == MakeEdge(relation, profile, neighbor, acc.clock)
                   next_id == neighbor.id
                   enq == ShouldEnqueue(depth, depth_limit, next_id, vis, acc.queued)
                   acc2 ==
                     [profiles |-> upsert_profile(acc.profiles, neighbor),
                      edges_to_add |-> Append(acc.edges_to_add, edge),
                      queue |-> IF enq THEN Enqueue(acc.queue, <<next_id, depth + 1>>)
                                ELSE acc.queue,
                      queued |-> IF enq THEN acc.queued \cup {next_id} ELSE acc.queued,
                      clock |-> acc.clock + 1,
                      created |-> acc.created \cup
                                  {[relation |-> relation, subject |-> profile.id,
                                    neighbor |-> neighbor.id, edge |-> edge]}]
               IN ProcessNeighbors(relation, rest, profile, depth, depth_limit, st, vis, acc2)

\* crawl, line 88: the loop over connections.items()
RECURSIVE ProcessConnections(_, _, _, _, _, _, _)
ProcessConnections(connections, profile, depth, depth_limit, st, vis, acc) ==
  IF connections = <<>> THEN acc
  ELSE ProcessConnections(Tail(connections), profile, depth, depth_limit, st, vis,
         ProcessNeighbors(Head(connections)[1], Head(connections)[2],
                          profile, depth, depth_limit, st, vis, acc))

\* ------------------------------------------------------------ RunRecorder
\* RunRecorder(): the three fields at their default factories
RunRecorder == [profile_ids |-> {}, edge_keys |-> {}, edges |-> <<>>]

\* RunRecorder.record_profile
record_profile(rec, profile) ==
  [rec EXCEPT !.profile_ids = @ \cup {profile.id}]

\* RunRecorder.record_edge
record_edge(rec, edge) ==
  IF Triple(edge) \notin rec.edge_keys
  THEN [rec EXCEPT !.edge_keys = @ \cup {Triple(edge)}, !.edges = Append(@, edge)]
  ELSE rec

\* -------------------------------------------------------------------- cli
\* the keyword arguments SpotifyGraphCrawler.__init__ declares
CrawlerInitKeywords == {"repository", "settings"}

\* the keyword arguments scrape constructs the crawler with
ScrapeCrawlerKeywords == {"repository", "settings", "run_recorder"}

\* the options of one scrape invocation and what its environment answers:
\* whether the settings load, the cookie options, whether the cookie file
\* loads, and whether confirm_login and login succeed
CliArgs ==
  [settings_ok : BOOLEAN, use_cookies : BOOLEAN, cookie_file : BOOLEAN,
   cookies_loaded : BOOLEAN, confirm_ok : BOOLEAN, login_ok : BOOLEAN,
   depth : 1..MaxDepth]

NoArgs == <<>>

\* authenticate_session, lines 66-72: authenticated through stored cookies
CookieLogin(args) ==
  args.use_cookies /\ args.cookie_file /\ args.cookies_loaded /\ args.confirm_ok

\* authenticate_session, lines 80-85: whether the session ends authenticated;
\* FALSE is the raise of typer.Exit(code=1)
authenticate_session(args) ==
  CookieLogin(args) \/ args.login_ok

\* ------------------------------------------------------------------ state
VARIABLES
  web,            \* what the site shows: follower counts and follower lists
  settings,       \* Settings
  store,          \* the files of the JsonGraphStore directory
  pc,             \* "idle" between processes, "crawling" inside crawl
  runs,           \* finished process invocations
  depth_limit,    \* crawl: depth_limit
  queue,          \* crawl: queue of <<profile_id, depth>>
  visited,        \* crawl: visited
  queued,         \* crawl: queued
  repo_profiles,  \* GraphRepository.profiles
  repo_edges,     \* GraphRepository.edges
  clock,          \* datetime.utcnow() as a counter of Relationship constructions
  created,        \* history: which discovery of this crawl made which edge
  fetch_log,      \* history: the ids this crawl called the fetcher for, with the outcome
  op,             \* history: the kind of the last step
  since_persist,  \* history: the repository is as the last persist of this process wrote it
  ever_ids,       \* history: profile ids ever written to current/profiles.json
  ever_triples,   \* history: edge triples ever written to current/edges.json
  api_call,       \* history: the last direct call of the repository or store API
  recorder,       \* the RunRecorder of the process
  upserted,       \* history: the ids this crawl handed to upsert_profile
  archive,        \* the archive directory of this JsonGraphStore's timestamp
  archived,       \* JsonGraphStore._archived
  cli_args,       \* scrape: its options and what the login attempts answer
  cli_pc,         \* scrape: the position inside the command
  exit_status,    \* scrape: the exit status of the command, none while it runs
  writers,        \* the processes inside persist: position, arguments, what each read
  prev            \* history: how the previous crawl on this store ended

vars ==
  <<web, settings, store, pc, runs, depth_limit, queue, visited, queued,
    repo_profiles, repo_edges, clock, created, fetch_log, op, since_persist,
    ever_ids, ever_triples, api_call, recorder, upserted, archive, archived,
    cli_args, cli_pc, exit_status, writers, prev>>

\* what the crawl and the direct calls of the repository leave alone
Apart ==
  UNCHANGED <<recorder, archive, archived, cli_args, cli_pc, exit_status, writers>>

Aside == Apart /\ UNCHANGED prev

\* the root handed to crawl
Roots == {"A"}

Root == CHOOSE r \in Roots : TRUE

EmptyLog == [i \in {} |-> "accessible"]

\* a direct API call: its name and its profile and edge arguments
Call(name, profiles, edges) == [name |-> name, profiles |-> profiles, edges |-> edges]

NoCall == Call("none", <<>>, <<>>)

\* no crawl has ended on the store yet
NoPrev ==
  [depth_limit |-> 0, visited |-> {}, fetch_log |-> EmptyLog,
   master_ids |-> {}, master_triples |-> {}]

\* an empty store directory, a new repository on it, no crawl running
Fresh ==
  /\ store = EmptyStore
  /\ pc = "idle"
  /\ runs = 0
  /\ depth_limit = 0
  /\ queue = <<>>
  /\ visited = {}
  /\ queued = {}
  /\ repo_profiles = EmptyMap
  /\ repo_edges = <<>>
  /\ clock = 1
  /\ created = {}
  /\ fetch_log = EmptyLog
  /\ op = "init"
  /\ since_persist = FALSE
  /\ ever_ids = {}
  /\ ever_triples = {}
  /\ api_call = NoCall
  /\ recorder = RunRecorder
  /\ upserted = {}
  /\ archive = NoArchive
  /\ archived = FALSE
  /\ cli_args = NoArgs
  /\ cli_pc = "none"
  /\ exit_status = None
  /\ writers = NoWriters
  /\ prev = NoPrev

Init ==
  /\ web \in Webs
  /\ settings \in SettingsChoices
  /\ Fresh

\* a process starts: JsonGraphStore.__post_init__ migrates the flat files,
\* GraphRepository.__post_init__ loads the store and backfills the flags,
\* then crawl (lines 33-39) seeds its traversal state
StartRun(max_depth) ==
  /\ pc = "idle"
  /\ runs < MaxRuns
  /\ store' = migrate_flat_files(store)
  /\ repo_profiles' = post_init(store', "none").profiles
  /\ repo_edges' = post_init(store', "none").edges
  /\ depth_limit' = DepthLimit(max_depth, settings)
  /\ queue' = << <<Root, 0>> >>
  /\ visited' = {}
  /\ queued' = {Root}
  /\ created' = {}
  /\ fetch_log' = EmptyLog
  /\ pc' = "crawling"
  /\ op' = "start"
  /\ since_persist' = FALSE
  /\ upserted' = {}
  /\ UNCHANGED <<web, settings, runs, clock, ever_ids, ever_triples, api_call>>
  /\ Aside

\* the write of the history of what reached the current tier
Written(st) ==
  /\ ever_ids' = ever_ids \cup DOMAIN st.profiles.data
  /\ ever_triples' = ever_triples \cup EntryKeys(st.edges.data)

\* one iteration of the while loop of crawl (lines 42-119)
CrawlStep(outcome) ==
  /\ pc = "crawling"
  /\ queue # <<>>
  /\ LET profile_id == Head(queue)[1]
         depth == Head(queue)[2]
         popped == Tail(queue)
         cached_profile == find_profile(repo_profiles, profile_id)
         use_cache == UseCache(cached_profile)
         fetched == fetch_profile(repo_profiles, settings, web, profile_id, outcome)
         \* lines 51-74: the profile and connections the pass works with;
         \* <<>> for profile when the node is skipped after a failed fetch
         resolved ==
           IF use_cache
           THEN FromCache(repo_profiles, repo_edges, cached_profile, profile_id)
           ELSE IF outcome = "overview_raises"
           THEN AfterFetchFailure(cached_profile, profile_id)
           ELSE [profile |-> <<fetched.profile>>, connections |-> fetched.connections]
         profile == resolved.profile
         connections == resolved.connections
         skip_early == profile_id \in visited \/ depth > depth_limit
         calls == ~skip_early /\ ~use_cache
         skip == skip_early \/ profile = <<>> \/ OverThreshold(profile[1], settings)
         acc0 == [profiles |-> upsert_profile(repo_profiles, profile[1]),
                  edges_to_add |-> <<>>,
                  queue |-> popped,
                  queued |-> queued,
                  clock |-> clock,
                  created |-> created]
         acc == ProcessConnections(connections, profile[1], depth, depth_limit,
                                   settings, visited \cup {profile_id}, acc0)
         new_edges == IF acc.edges_to_add # <<>>
                      THEN bulk_add_edges(repo_edges, acc.edges_to_add)
                      ELSE repo_edges
         new_store == persist(store, acc.profiles, new_edges)
     IN /\ visited' = visited \cup {profile_id}
        /\ fetch_log' = IF calls
                        THEN [i \in DOMAIN fetch_log \cup {profile_id} |->
                                IF i = profile_id THEN outcome ELSE fetch_log[i]]
                        ELSE fetch_log
        /\ IF skip
           THEN /\ queue' = popped
                /\ op' = "node_skipped"
                /\ UNCHANGED <<queued, repo_profiles, repo_edges, clock, created,
                               store, since_persist, ever_ids, ever_triples,
                               upserted>>
           ELSE /\ queue' = acc.queue
                /\ queued' = acc.queued
                /\ repo_profiles' = acc.profiles
                /\ repo_edges' = new_edges
                /\ clock' = acc.clock
                /\ created' = acc.created
                /\ store' = new_store
                /\ op' = "node_persisted"
                /\ since_persist' = TRUE
                /\ upserted' = upserted \cup {profile_id}
                                 \cup {c.neighbor : c \in acc.created \ created}
                /\ Written(new_store)
  /\ UNCHANGED <<web, settings, pc, runs, depth_limit, api_call>>
  /\ Aside

\* the queue is empty: crawl returns and the caller persists (cli.py, scrape)
FinishCrawl ==
  /\ pc = "crawling"
  /\ queue = <<>>
  /\ store' = persist(store, repo_profiles, repo_edges)
  /\ Written(store')
  /\ pc' = "idle"
  /\ runs' = runs + 1
  /\ op' = IF since_persist THEN "persist_again" ELSE "persist_first"
  /\ since_persist' = TRUE
  /\ UNCHANGED <<web, settings, depth_limit, queue, visited, queued,
                 repo_profiles, repo_edges, clock, created, fetch_log, api_call,
                 upserted>>
  /\ Apart

FinishRun == FinishCrawl /\ UNCHANGED prev

Next ==
  \/ \E max_depth \in 0..MaxDepth : StartRun(max_depth)
  \/ \E outcome \in FetchOutcomes : CrawlStep(outcome)
  \/ FinishRun

Spec == Init /\ [][Next]_vars

\* ------------------------------------- a crawl repeated on what it persisted
\* the fetcher answers for an id as it did in the previous crawl
SameAnswer(outcome) ==
  Head(queue)[1] \in DOMAIN prev.fetch_log => outcome = prev.fetch_log[Head(queue)[1]]

\* the next process is started on the same root
RepeatStart(max_depth) == StartRun(max_depth)

\* an iteration of the loop, the site and the fetcher unchanged
RepeatStep(outcome) ==
  /\ pc = "crawling" /\ queue # <<>>
  /\ SameAnswer(outcome)
  /\ CrawlStep(outcome)

\* crawl returns and the caller persists; prev keeps how the crawl ended
\* and every answer the fetcher has given
RepeatFinish ==
  /\ FinishCrawl
  /\ prev' = [depth_limit |-> depth_limit, visited |-> visited,
              fetch_log |-> [i \in DOMAIN prev.fetch_log \cup DOMAIN fetch_log |->
                               IF i \in DOMAIN fetch_log THEN fetch_log[i]
                               ELSE prev.fetch_log[i]],
              master_ids |-> DOMAIN store'.master_profiles.data,
              master_triples |-> EntryKeys(store'.master_edges.data)]

NextRepeat ==
  \/ \E max_depth \in 0..MaxDepth : RepeatStart(max_depth)
  \/ \E outcome \in FetchOutcomes : RepeatStep(outcome)
  \/ RepeatFinish

SpecRepeat == Init /\ [][NextRepeat]_vars

\* the while loop of crawl (line 41) can run an iteration: ENABLED of the
\* loop step, written out
LoopEnabled == pc = "crawling" /\ queue # <<>>

\* an iteration of the while loop, seen through the popleft of line 42
LoopIteration == LoopEnabled /\ queue' # queue

\* WF_vars(LoopIteration) with its ENABLED written out as LoopEnabled: the
\* process keeps executing its loop, every call of one iteration (the fetch
\* included) returns or raises, and nothing else runs in the process
LoopFairness == ([]<>(~LoopEnabled)) \/ ([]<><<LoopIteration>>_vars)

\* the processes of Spec, each running its crawl loop on without stopping
FairSpec == Init /\ [][Next]_vars /\ LoopFairness

\* --------------------------------- the crawl under other allowed settings
\* follower_threshold and followers_download_limit are both declared ge=0
ThresholdChoices == {0, 5, DefaultFollowerThreshold}

LimitChoices == {0, 5, DefaultFollowersDownloadLimit}

ConfigSettings ==
  {[crawl_max_depth |-> DefaultCrawlMaxDepth,
    follower_threshold |-> t,
    followers_download_limit |-> l] : t \in ThresholdChoices, l \in LimitChoices}

\* webs with follower counts around these settings, the count 0 included
ConfigCountChoices ==
  [A |-> {Some(0), Some(5)},
   B |-> {None, Some(0), Some(5)},
   C |-> {Some(5)}]

ConfigListChoices ==
  [A |-> {<<"B", "C">>, <<"B">>},
   B |-> {<<>>, <<"C">>},
   C |-> {<<>>}]

ConfigWebs ==
  {w \in [count : [Ids -> {None, Some(0), Some(5)}],
          list : [Ids -> UNION {ConfigListChoices[i] : i \in Ids}]] :
     \A i \in Ids : w.list[i] \in ConfigListChoices[i]
                     /\ w.count[i] \in ConfigCountChoices[i]}

InitConfig ==
  /\ web \in ConfigWebs
  /\ settings \in ConfigSettings
  /\ Fresh

SpecConfig == InitConfig /\ [][Next]_vars

\* ------------------------------------- the repository and store APIs alone
\* the arguments the direct calls are explored with
ApiIds == {"A", "B"}

Stamps == {1, 2}

ApiProfiles ==
  [id : ApiIds, followers : {None}, is_private : {FALSE},
   followers_fetch_attempted : BOOLEAN,
   followers_fetched : BOOLEAN,
   followers_oversized : BOOLEAN]

ApiProfileLists ==
  {<<p, q>> : p \in {r \in ApiProfiles : ~r.followers_oversized},
              q \in {r \in ApiProfiles : ~r.followers_oversized}}

ApiEdges ==
  {e \in [source_id : ApiIds, target_id : ApiIds,
          relation_type : {"follower"}, discovered_at : Stamps] :
     e.source_id # e.target_id}

ApiEdgeLists ==
  {<<e>> : e \in ApiEdges} \cup {<<e, f>> : e \in ApiEdges, f \in ApiEdges}

\* profile dicts handed to save_profiles: each key maps to a record of that id
ApiProfileMaps ==
  UNION {{m \in [S -> {p \in ApiProfiles :
                         /\ ~p.followers_oversized
                         /\ p.followers_fetch_attempted = p.followers_fetched}] :
            \A i \in S : m[i].id = i} : S \in SUBSET ApiIds}

InitApi ==
  /\ web = CHOOSE w \in Webs : TRUE
  /\ settings = CHOOSE st \in SettingsChoices : TRUE
  /\ Fresh

\* what the direct calls leave alone
ApiFrame ==
  UNCHANGED <<web, settings, pc, runs, depth_limit, queue, visited, queued,
              clock, created, fetch_log, op, since_persist, recorder, upserted,
              cli_args, cli_pc, exit_status, writers, prev>>

\* repository.upsert_profile(profile)
ApiUpsertProfile(profile) ==
  /\ repo_profiles' = upsert_profile(repo_profiles, profile)
  /\ api_call' = Call("upsert_profile", <<profile>>, <<>>)
  /\ UNCHANGED <<repo_edges, store, ever_ids, ever_triples>>
  /\ UNCHANGED <<archive, archived>>
  /\ ApiFrame

\* repository.bulk_add_profiles(profiles)
ApiBulkAddProfiles(profiles) ==
  /\ repo_profiles' = bulk_add_profiles(repo_profiles, profiles)
  /\ api_call' = Call("bulk_add_profiles", profiles, <<>>)
  /\ UNCHANGED <<repo_edges, store, ever_ids, ever_triples>>
  /\ UNCHANGED <<archive, archived>>
  /\ ApiFrame

\* repository.bulk_add_edges(edges)
ApiBulkAddEdges(edges) ==
  /\ repo_edges' = bulk_add_edges(repo_edges, edges)
  /\ api_call' = Call("bulk_add_edges", <<>>, edges)
  /\ UNCHANGED <<repo_profiles, store, ever_ids, ever_triples>>
  /\ UNCHANGED <<archive, archived>>
  /\ ApiFrame

NextRepoProfiles ==
  \/ \E profile \in ApiProfiles : ApiUpsertProfile(profile)
  \/ \E profiles \in ApiProfileLists : ApiBulkAddProfiles(profiles)

SpecRepoProfiles == InitApi /\ [][NextRepoProfiles]_vars

NextRepoEdges == \E edges \in ApiEdgeLists : ApiBulkAddEdges(edges)

SpecRepoEdges == InitApi /\ [][NextRepoEdges]_vars

\* store.save_profiles(profiles)
ApiSaveProfiles(profiles) ==
  /\ store' = save_profiles(store, profiles)
  /\ ever_ids' = ever_ids \cup DOMAIN profiles
  /\ api_call' = Call("save_profiles", <<profiles>>, <<>>)
  /\ UNCHANGED <<repo_profiles, repo_edges, ever_triples>>
  /\ UNCHANGED <<archive, archived>>
  /\ ApiFrame

\* store.save_edges(edges)
ApiSaveEdges(edges) ==
  /\ store' = save_edges(store, edges)
  /\ ever_triples' = ever_triples \cup EntryKeys(edges)
  /\ api_call' = Call("save_edges", <<>>, edges)
  /\ UNCHANGED <<repo_profiles, repo_edges, ever_ids>>
  /\ UNCHANGED <<archive, archived>>
  /\ ApiFrame

NextStore ==
  \/ \E profiles \in ApiProfileMaps : ApiSaveProfiles(profiles)
  \/ \E edges \in ApiEdgeLists \cup {<<>>} : ApiSaveEdges(edges)

SpecStore == InitApi /\ [][NextStore]_vars

\* ------------------------------------------------------------ cli: scrape
InitCli ==
  /\ web = CHOOSE w \in Webs : TRUE
  /\ settings = CHOOSE st \in SettingsChoices : TRUE
  /\ store = EmptyStore
  /\ pc = "idle"
  /\ runs = 0
  /\ depth_limit = 0
  /\ queue = <<>>
  /\ visited = {}
  /\ queued = {}
  /\ repo_profiles = EmptyMap
  /\ repo_edges = <<>>
  /\ clock = 1
  /\ created = {}
  /\ fetch_log = EmptyLog
  /\ op = "init"
  /\ since_persist = FALSE
  /\ ever_ids = {}
  /\ ever_triples = {}
  /\ api_call = NoCall
  /\ recorder = RunRecorder
  /\ upserted = {}
  /\ archive = NoArchive
  /\ archived = FALSE
  /\ cli_args \in CliArgs
  /\ cli_pc = "settings"
  /\ exit_status = None
  /\ writers = NoWriters
  /\ prev = NoPrev

\* what scrape leaves alone before the crawl
CliFrame ==
  UNCHANGED <<web, pc, runs, depth_limit, queue, visited, queued, clock,
              created, fetch_log, op, since_persist, ever_ids, ever_triples,
              api_call, upserted, archive, cli_args, writers, prev>>

\* scrape, lines 186-204: the settings load, exit status 1 when it fails,
\* and the raise of crawl_max_depth to the requested depth
CliSettings ==
  /\ cli_pc = "settings"
  /\ IF cli_args.settings_ok
     THEN /\ settings' = IF cli_args.depth > settings.crawl_max_depth
                         THEN [settings EXCEPT !.crawl_max_depth = cli_args.depth]
                         ELSE settings
          /\ cli_pc' = "repository"
          /\ UNCHANGED exit_status
     ELSE /\ exit_status' = Some(1)
          /\ cli_pc' = "exited"
          /\ UNCHANGED settings
  /\ UNCHANGED <<store, repo_profiles, repo_edges, recorder, archived>>
  /\ CliFrame

\* scrape, lines 206-210: the repository on a new JsonGraphStore, its flat
\* files migrated, loaded and backfilled, and the RunRecorder
CliRepository ==
  /\ cli_pc = "repository"
  /\ store' = migrate_flat_files(store)
  /\ repo_profiles' = post_init(store', "none").profiles
  /\ repo_edges' = post_init(store', "none").edges
  /\ recorder' = RunRecorder
  /\ archived' = FALSE
  /\ cli_pc' = "authenticate"
  /\ UNCHANGED <<settings, exit_status>>
  /\ CliFrame

\* scrape, lines 212-220: authenticate_session; a failed login leaves the
\* command with exit status 1
CliAuthenticate ==
  /\ cli_pc = "authenticate"
  /\ IF authenticate_session(cli_args)
     THEN /\ cli_pc' = "construct"
          /\ UNCHANGED exit_status
     ELSE /\ exit_status' = Some(1)
          /\ cli_pc' = "exited"
  /\ UNCHANGED <<settings, store, repo_profiles, repo_edges, recorder, archived>>
  /\ CliFrame

\* scrape, lines 222-227: the construction of the crawler; a keyword that
\* __init__ does not declare raises TypeError, which ends the command with
\* exit status 1 before crawl, persist, archive_snapshot and
\* write_run_results (lines 232-241) are reached
CliConstructCrawler ==
  /\ cli_pc = "construct"
  /\ IF ScrapeCrawlerKeywords \subseteq CrawlerInitKeywords
     THEN /\ cli_pc' = "crawl"
          /\ UNCHANGED exit_status
     ELSE /\ exit_status' = Some(1)
          /\ cli_pc' = "exited"
  /\ UNCHANGED <<settings, store, repo_profiles, repo_edges, recorder, archived>>
  /\ CliFrame

NextCli ==
  \/ CliSettings
  \/ CliRepository
  \/ CliAuthenticate
  \/ CliConstructCrawler

SpecCli == InitCli /\ [][NextCli]_vars

\* the repository contents the persists around archive_snapshot are explored
\* with
ArchiveProfileMaps ==
  {m \in ApiProfileMaps : \A i \in DOMAIN m : ~m[i].followers_fetched}

ArchiveEdgeLists ==
  {<<>>} \cup {<<e>> : e \in {f \in ApiEdges : f.discovered_at = 1}}

\* repository.persist() with the repository holding profiles and edges
ApiPersist(profiles, edges) ==
  /\ store' = persist(store, profiles, edges)
  /\ repo_profiles' = profiles
  /\ repo_edges' = edges
  /\ Written(store')
  /\ api_call' = Call("persist", <<profiles>>, edges)
  /\ UNCHANGED <<archive, archived>>
  /\ ApiFrame

\* store.archive_snapshot()
ApiArchiveSnapshot ==
  /\ archive' = archive_snapshot(store, archive, archived).archive
  /\ archived' = archive_snapshot(store, archive, archived).archived
  /\ api_call' = Call(IF archived THEN "archive_snapshot_again" ELSE "archive_snapshot",
                      <<>>, <<>>)
  /\ UNCHANGED <<store, repo_profiles, repo_edges, ever_ids, ever_triples>>
  /\ ApiFrame

NextArchive ==
  \/ \E profiles \in ArchiveProfileMaps, edges \in ArchiveEdgeLists :
       ApiPersist(profiles, edges)
  \/ ApiArchiveSnapshot

SpecArchive == InitApi /\ [][NextArchive]_vars

\* ------------------------------------ persist by processes on one directory
\* what the repository of a writing process holds
WriterProfileMaps ==
  {m \in ApiProfileMaps : Cardinality(DOMAIN m) = 1 /\ \A i \in DOMAIN m : ~m[i].followers_fetched}

WriterEdgeLists ==
  {<<e>> : e \in {f \in ApiEdges : f.discovered_at = 1}}

\* what the steps of the writers leave alone
WriterFrame ==
  UNCHANGED <<web, settings, pc, runs, depth_limit, queue, visited, queued,
              repo_profiles, repo_edges, clock, created, fetch_log, op,
              since_persist, api_call, recorder, upserted, archive, archived,
              cli_args, cli_pc, exit_status, prev>>

\* process w moves to position at, the fields of change replaced
Moved(w, at, change) ==
  [writers EXCEPT !.proc[w] =
     [f \in DOMAIN IdleWriter |->
        IF f = "pc" THEN at
        ELSE IF f \in DOMAIN change THEN change[f] ELSE writers.proc[w][f]]]

\* process w calls repository.persist(): save_profiles writes the current
\* profiles file (lines 85-86)
WriterCurrentProfiles(w, profiles, edges) ==
  /\ writers.proc[w].pc = "idle"
  /\ store' = write_current_profiles(store, profiles)
  /\ writers' = [Moved(w, "read_master_profiles",
                       [profiles |-> profiles, edges |-> edges])
                   EXCEPT !.overlapped =
                     @ \/ \E v \in Procs \ {w} : writers.proc[v].pc # "idle"]
  /\ ever_ids' = ever_ids \cup DOMAIN profiles
  /\ UNCHANGED ever_triples
  /\ WriterFrame

\* save_profiles, line 88
WriterReadMasterProfiles(w) ==
  /\ writers.proc[w].pc = "read_master_profiles"
  /\ writers' = Moved(w, "write_master_profiles",
                      [master_profiles |-> read_master_profiles(store)])
  /\ UNCHANGED <<store, ever_ids, ever_triples>>
  /\ WriterFrame

\* save_profiles, lines 89-90
WriterWriteMasterProfiles(w) ==
  /\ writers.proc[w].pc = "write_master_profiles"
  /\ store' = write_master_profiles(store, writers.proc[w].master_profiles,
                                    writers.proc[w].profiles)
  /\ writers' = Moved(w, "write_current_edges", <<>>)
  /\ UNCHANGED <<ever_ids, ever_triples>>
  /\ WriterFrame

\* save_edges, lines 94-95
WriterCurrentEdges(w) ==
  /\ writers.proc[w].pc = "write_current_edges"
  /\ store' = write_current_edges(store, writers.proc[w].edges)
  /\ writers' = Moved(w, "read_master_edges", <<>>)
  /\ ever_triples' = ever_triples \cup EntryKeys(writers.proc[w].edges)
  /\ UNCHANGED ever_ids
  /\ WriterFrame

\* save_edges, line 97
WriterReadMasterEdges(w) ==
  /\ writers.proc[w].pc = "read_master_edges"
  /\ writers' = Moved(w, "write_master_edges",
                      [master_edges |-> read_master_edges(store)])
  /\ UNCHANGED <<store, ever_ids, ever_triples>>
  /\ WriterFrame

\* save_edges, lines 98-104: persist returns
WriterWriteMasterEdges(w) ==
  /\ writers.proc[w].pc = "write_master_edges"
  /\ store' = write_master_edges(store, writers.proc[w].master_edges,
                                 writers.proc[w].edges)
  /\ writers' = Moved(w, "idle", <<>>)
  /\ UNCHANGED <<ever_ids, ever_triples>>
  /\ WriterFrame

NextConcurrent ==
  \E w \in Procs :
     \/ \E profiles \in WriterProfileMaps, edges \in WriterEdgeLists :
          WriterCurrentProfiles(w, profiles, edges)
     \/ WriterReadMasterProfiles(w)
     \/ WriterWriteMasterProfiles(w)
     \/ WriterCurrentEdges(w)
     \/ WriterReadMasterEdges(w)
     \/ WriterWriteMasterEdges(w)

SpecConcurrent == InitApi /\ [][NextConcurrent]_vars

\* ------------------------------------------- legacy flat files in the store
\* the payloads a flat or a master file holds before the first construction
LegacyProfileMaps ==
  {m \in ApiProfileMaps : Cardinality(DOMAIN m) = 1 /\ \A i \in DOMAIN m : ~m[i].followers_fetched}

LegacyEdgeLists ==
  {<<e>> : e \in {f \in ApiEdges : f.discovered_at = 1}}

\* the directories a JsonGraphStore can be pointed at: each flat file and
\* each master file present or not, the current tier empty
LegacyStores ==
  {[EmptyStore EXCEPT !.flat_profiles = fp, !.flat_edges = fe,
                      !.master_profiles = mp, !.master_edges = me] :
     fp \in {NoProfilesFile} \cup {ProfilesFile(m) : m \in LegacyProfileMaps},
     fe \in {NoEdgesFile} \cup {EdgesFile(e) : e \in LegacyEdgeLists},
     mp \in {NoProfilesFile} \cup {ProfilesFile(m) : m \in LegacyProfileMaps},
     me \in {NoEdgesFile} \cup {EdgesFile(e) : e \in LegacyEdgeLists}}

InitMigrate ==
  /\ web = CHOOSE w \in Webs : TRUE
  /\ settings = CHOOSE st \in SettingsChoices : TRUE
  /\ store \in LegacyStores
  /\ pc = "idle"
  /\ runs = 0
  /\ depth_limit = 0
  /\ queue = <<>>
  /\ visited = {}
  /\ queued = {}
  /\ repo_profiles = EmptyMap
  /\ repo_edges = <<>>
  /\ clock = 1
  /\ created = {}
  /\ fetch_log = EmptyLog
  /\ op = "init"
  /\ since_persist = FALSE
  /\ ever_ids = {}
  /\ ever_triples = {}
  /\ api_call = NoCall
  /\ recorder = RunRecorder
  /\ upserted = {}
  /\ archive = NoArchive
  /\ archived = FALSE
  /\ cli_args = NoArgs
  /\ cli_pc = "none"
  /\ exit_status = None
  /\ writers = NoWriters
  /\ prev = NoPrev

\* JsonGraphStore(base_path=...) on the directory; op keeps whether the
\* directory has been initialised before
ApiInitStore ==
  /\ store' = migrate_flat_files(store)
  /\ archived' = FALSE
  /\ op' = IF op = "init" THEN "store_initialised" ELSE "store_initialised_again"
  /\ api_call' = Call("init_store", <<>>, <<>>)
  /\ UNCHANGED <<web, settings, pc, runs, depth_limit, queue, visited, queued,
                 repo_profiles, repo_edges, clock, created, fetch_log,
                 since_persist, ever_ids, ever_triples, recorder, upserted,
                 archive, cli_args, cli_pc, exit_status, writers, prev>>

\* the saves of a process that has constructed its store
NextMigrate ==
  \/ ApiInitStore
  \/ \E profiles \in LegacyProfileMaps : op # "init" /\ ApiSaveProfiles(profiles)
  \/ \E edges \in LegacyEdgeLists : op # "init" /\ ApiSaveEdges(edges)

SpecMigrate == InitMigrate /\ [][NextMigrate]_vars

\* ------------------------------------- construction on a store with content
\* persisted profiles with every combination of the two fetch flags
LoadProfiles ==
  {p \in ApiProfiles : ~p.followers_oversized}

LoadProfileMaps ==
  UNION {{m \in [S -> LoadProfiles] : \A i \in S : m[i].id = i} : S \in SUBSET ApiIds}

\* persisted edges of both relation types
LoadEdges ==
  {e \in [source_id : ApiIds, target_id : ApiIds,
          relation_type : {"follower", "following"}, discovered_at : {1}] :
     e.source_id # e.target_id}

LoadEdgeLists ==
  {<<>>} \cup {<<e>> : e \in LoadEdges} \cup {<<e, f>> : e \in LoadEdges, f \in LoadEdges}

\* the store directories a process can find: content in the master tier, or
\* in the current tier alone
LoadStores ==
  {[profiles |-> ProfilesFile(m), edges |-> EdgesFile(e),
    master_profiles |-> ProfilesFile(m), master_edges |-> EdgesFile(e),
    flat_profiles |-> NoProfilesFile, flat_edges |-> NoEdgesFile] :
       m \in LoadProfileMaps, e \in LoadEdgeLists}
  \cup
  {[profiles |-> ProfilesFile(m), edges |-> EdgesFile(e),
    master_profiles |-> NoProfilesFile, master_edges |-> NoEdgesFile,
    flat_profiles |-> NoProfilesFile, flat_edges |-> NoEdgesFile] :
       m \in LoadProfileMaps, e \in LoadEdgeLists}

InitLoad ==
  /\ web = CHOOSE w \in Webs : TRUE
  /\ settings = CHOOSE st \in SettingsChoices : TRUE
  /\ store \in LoadStores
  /\ pc = "idle"
  /\ runs = 0
  /\ depth_limit = 0
  /\ queue = <<>>
  /\ visited = {}
  /\ queued = {}
  /\ repo_profiles = EmptyMap
  /\ repo_edges = <<>>
  /\ clock = 1
  /\ created = {}
  /\ fetch_log = EmptyLog
  /\ op = "init"
  /\ since_persist = FALSE
  /\ ever_ids = DOMAIN store.profiles.data
  /\ ever_triples = EntryKeys(store.edges.data)
  /\ api_call = NoCall
  /\ recorder = RunRecorder
  /\ upserted = {}
  /\ archive = NoArchive
  /\ archived = FALSE
  /\ cli_args = NoArgs
  /\ cli_pc = "none"
  /\ exit_status = None
  /\ writers = NoWriters
  /\ prev = NoPrev

ConstructCall ==
  [none |-> "construct",
   load_profiles |-> "construct_load_profiles_raised",
   load_edges |-> "construct_load_edges_raised"]

\* GraphRepository(store=JsonGraphStore(...)) on the store directory
ApiConstruct(raises) ==
  /\ CanRaise(store, raises)
  /\ repo_profiles' = post_init(store, raises).profiles
  /\ repo_edges' = post_init(store, raises).edges
  /\ api_call' = Call(ConstructCall[raises], <<>>, <<>>)
  /\ UNCHANGED <<store, ever_ids, ever_triples>>
  /\ UNCHANGED <<archive, archived>>
  /\ ApiFrame

NextLoad == \E raises \in LoadRaises : ApiConstruct(raises)

SpecLoad == InitLoad /\ [][NextLoad]_vars

\* ---------------------------------------------------------- properties
\* what is persisted: the profile ids and the edge entries of a tier
CurrentIds == DOMAIN store.profiles.data

MasterIds == DOMAIN store.master_profiles.data

CurrentEdges == store.edges.data

MasterEdges == store.master_edges.data

\* no two entries of an edge list share their triple
NoDuplicateTriple(entries) == Cardinality(EntryKeys(entries)) = Len(entries)

\* the ids some entry of an edge list has as source or target
Endpoints(entries) ==
  {entries[k].source_id : k \in 1..Len(entries)}
    \cup {entries[k].target_id : k \in 1..Len(entries)}

\* C2: once the repository record of a profile has followers_oversized
\* true, no later step of the same crawl leaves it false
C2_OversizedMonotonic ==
  [][(pc = "crawling" /\ pc' = "crawling") =>
       \A i \in DOMAIN repo_profiles :
         repo_profiles[i].followers_oversized =>
           (i \in DOMAIN repo_profiles' /\ repo_profiles'[i].followers_oversized)]_vars

\* the first crawl on an empty store has ended and the caller has persisted
FirstCrawlEnded == pc = "idle" /\ runs = 1

\* C3: when the first crawl on an empty store has ended, no profile whose
\* follower count is at or above the threshold is in the persisted profiles
\* or at either end of a persisted edge, in current and in master
C3_ThresholdExclusion ==
  FirstCrawlEnded =>
    \A i \in Ids :
      (web.count[i] # None /\ web.count[i][1] >= settings.follower_threshold) =>
        /\ i \notin CurrentIds
        /\ i \notin MasterIds
        /\ i \notin Endpoints(CurrentEdges)
        /\ i \notin Endpoints(MasterEdges)

\* the <<subject, neighbour>> pairs of the connections this crawl discovered
Discovered == {<<c.subject, c.neighbor>> : c \in created}

\* the ids at distance at most k from the root along discovered connections
RECURSIVE Within(_)
Within(k) ==
  IF k = 0 THEN {Root}
  ELSE LET near == Within(k - 1)
       IN near \cup {d[2] : d \in {e \in Discovered : e[1] \in near}}

\* C4: every id the crawl enqueued or called the fetcher for is within
\* depth_limit of the root along the discovered connections
C4_DepthBound ==
  pc = "crawling" =>
    /\ depth_limit >= 1
    /\ queued \subseteq Within(depth_limit)
    /\ DOMAIN fetch_log \subseteq Within(depth_limit)

\* a crawl has emptied its queue having discovered an id beyond the limit
C4_Witness ==
  /\ pc = "crawling"
  /\ queue = <<>>
  /\ \E d \in Discovered :
       d[2] \notin Within(depth_limit) /\ d[2] \notin queued /\ d[2] \notin DOMAIN fetch_log

\* C5: neither current/edges.json nor master/edges.json holds two edges
\* with the same (source_id, target_id, relation_type)
C5_NoDuplicatePersisted ==
  NoDuplicateTriple(CurrentEdges) /\ NoDuplicateTriple(MasterEdges)

\* C7: every edge made from a followers discovery of neighbour N for
\* subject S is (N, S, "follower"), and is in the repository
C7_EdgeDirection ==
  \A c \in created :
    c.relation = "followers" =>
      /\ Triple(c.edge) = <<c.neighbor, c.subject, "follower">>
      /\ c.edge.source_id # c.subject \/ c.neighbor = c.subject
      /\ EdgeIn(c.edge, repo_edges)

\* one crawl has made edges for a freshly fetched subject and for a subject
\* served from the cache
C7_Witness ==
  /\ \E c \in created : c.relation = "followers" /\ c.subject \in DOMAIN fetch_log
  /\ \E c \in created : c.relation = "followers" /\ c.subject \notin DOMAIN fetch_log

\* the scenario of C8: A shows 50 followers and lists B and C, B shows 5
\* and lists nobody, C shows 5000, every request answers, depth is 1
EndToEndScenario ==
  /\ web.count["A"] = Some(50) /\ web.list["A"] = <<"B", "C">>
  /\ web.count["B"] = Some(5) /\ web.list["B"] = <<>>
  /\ web.count["C"] = Some(5000)
  /\ settings.follower_threshold = 1000
  /\ depth_limit = 1
  /\ \A i \in DOMAIN fetch_log : fetch_log[i] = "accessible"

\* C8: in the scenario, when the first crawl has ended the persisted
\* profiles are A and B and the persisted edges are (B, A, follower)
C8_EndToEnd ==
  (FirstCrawlEnded /\ EndToEndScenario) =>
    /\ CurrentIds = {"A", "B"}
    /\ MasterIds = {"A", "B"}
    /\ EntryKeys(CurrentEdges) = {<<"B", "A", "follower">>}
    /\ EntryKeys(MasterEdges) = {<<"B", "A", "follower">>}

\* C9: a persist that follows a persist of the same process with no change
\* of the repository in between leaves both master files as they were
C9_IdempotentPersist ==
  [][(since_persist /\ op' = "persist_again") =>
       /\ store'.master_profiles = store.master_profiles
       /\ store'.master_edges = store.master_edges]_vars

\* the caller's persist has followed a persist of crawl with edges in master
C9_Witness ==
  op = "persist_again" /\ Len(MasterEdges) >= 2 /\ Cardinality(MasterIds) >= 2

\* C1: once the stored record of an id has followers_fetch_attempted
\* (resp. followers_fetched) true, it has it true after every later upsert
C1_MergeMonotonic ==
  [][\A i \in DOMAIN repo_profiles :
       /\ i \in DOMAIN repo_profiles'
       /\ repo_profiles[i].followers_fetch_attempted =>
            repo_profiles'[i].followers_fetch_attempted
       /\ repo_profiles[i].followers_fetched =>
            repo_profiles'[i].followers_fetched]_vars

\* the last upsert brought both flags false for an id stored with both true
C1_Witness ==
  /\ api_call.name = "upsert_profile"
  /\ LET incoming == api_call.profiles[1]
     IN /\ ~incoming.followers_fetch_attempted
        /\ ~incoming.followers_fetched
        /\ repo_profiles[incoming.id].followers_fetch_attempted
        /\ repo_profiles[incoming.id].followers_fetched

\* C6: whatever was passed to bulk_add_edges, repository.edges holds at
\* most one edge per (source_id, target_id, relation_type)
C6_BulkDedup == NoDuplicateTriple(repo_edges)

\* C10: master holds every profile id and edge triple ever written to
\* current, a saved record overwrites the master record of its id, no
\* triple is in master twice, and neither master set ever shrinks
C10_MasterSuperset ==
  /\ [](/\ ever_ids \subseteq MasterIds
        /\ ever_triples \subseteq EntryKeys(MasterEdges)
        /\ CurrentIds \subseteq MasterIds
        /\ \A i \in CurrentIds : store.master_profiles.data[i] = store.profiles.data[i]
        /\ EntryKeys(CurrentEdges) \subseteq EntryKeys(MasterEdges)
        /\ NoDuplicateTriple(MasterEdges))
  /\ [][/\ MasterIds \subseteq DOMAIN store'.master_profiles.data
        /\ EntryKeys(MasterEdges) \subseteq EntryKeys(store'.master_edges.data)]_vars

\* master holds a profile and an edge triple that the current tier no
\* longer holds, and the last save met a triple master already had
C10_Witness ==
  /\ api_call.name = "save_edges"
  /\ MasterIds # CurrentIds
  /\ EntryKeys(MasterEdges) # EntryKeys(CurrentEdges)
  /\ ~NoDuplicateTriple(CurrentEdges)
  /\ \E i \in CurrentIds : store.profiles.data[i].followers_fetched

\* C13: archive_snapshot is one-shot per JsonGraphStore instance: once a call
\* has been made on the instance, no later step changes the archive tier,
\* whatever the persists in between wrote to the current tier; when the first
\* call ran before any persist the archive stays without the data of the run.
C13_ArchiveOneShot ==
  [][archived => archive' = archive]_vars

\* a repeated call after a persist changed the current tier, on an instance
\* whose first call ran before any persist: the archive holds no file
C13_Witness ==
  /\ api_call.name = "archive_snapshot_again"
  /\ archived
  /\ archive.exists
  /\ ~archive.profiles.exists
  /\ ~archive.edges.exists
  /\ store.profiles.exists
  /\ store.profiles.data # EmptyMap

\* C11: when a crawl driven with a RunRecorder ends, recorder.profile_ids is
\* the set of profile ids the crawl upserted into the repository and the
\* triples of recorder.edges are the triples of the edges the crawl added,
\* whatever the repository had loaded from earlier runs.
C11_RecorderTracksCrawl ==
  (pc = "crawling" /\ queue = <<>>) =>
     /\ recorder.profile_ids = upserted
     /\ EntryKeys(recorder.edges) = {Triple(c.edge) : c \in created}

\* C12: scrape ends with exit status 1, no fetcher call and no persist when
\* authentication fails, and with exit status 0 after the crawl, the persist
\* and the archive snapshot when authentication succeeds.
C12_ScrapeExitStatus ==
  (cli_pc = "exited" /\ cli_args.settings_ok) =>
     IF authenticate_session(cli_args)
     THEN /\ exit_status = Some(0)
          /\ store.profiles.exists
          /\ archived
     ELSE /\ exit_status = Some(1)
          /\ fetch_log = EmptyLog
          /\ store = EmptyStore

\* the step in which the crawl dequeues the head of the queue
Dequeues == pc = "crawling" /\ queue # <<>> /\ visited' # visited

\* the dequeued id is handed to fetch_profile in this step, with this outcome
FetchedWith(outcome) ==
  /\ Dequeues
  /\ Head(queue)[1] \notin DOMAIN fetch_log
  /\ Head(queue)[1] \in DOMAIN fetch_log'
  /\ fetch_log'[Head(queue)[1]] = outcome

\* C14: a fetch_profile that raises for a dequeued id is not fatal: with a
\* record of the id in the repository the pass goes on with that record and
\* no connections, adding no edge and enqueuing no neighbour; without one the
\* repository is left unchanged by the node; in both cases only the failed
\* entry leaves the queue, the loop goes on, and when it ends every id that
\* was queued has been dequeued.
C14_FetchFailureNotFatal ==
  /\ [][FetchedWith("overview_raises") =>
          /\ pc' = "crawling"
          /\ queue' = Tail(queue)
          /\ queued' = queued
          /\ repo_edges' = repo_edges
          /\ created' = created
          /\ repo_profiles' = repo_profiles
          /\ IF /\ Head(queue)[1] \in DOMAIN repo_profiles
                /\ ~OverThreshold(repo_profiles[Head(queue)[1]], settings)
             THEN op' = "node_persisted" /\ Head(queue)[1] \in upserted'
             ELSE op' = "node_skipped" /\ upserted' = upserted]_vars
  /\ []((pc = "crawling" /\ queue = <<>>) => queued \subseteq visited)

\* the fetch of B raised while the repository held B's record and C was
\* still queued, and the crawl went on to dequeue C
C14_Witness ==
  /\ pc = "crawling"
  /\ "B" \in DOMAIN fetch_log
  /\ fetch_log["B"] = "overview_raises"
  /\ "B" \in upserted
  /\ "C" \in DOMAIN fetch_log
  /\ queue = <<>>

\* the repository holds the id with followers_fetch_attempted set
HeldAttempted(id) ==
  id \in DOMAIN repo_profiles /\ repo_profiles[id].followers_fetch_attempted

\* C15: for every id dequeued within the depth limit the fetcher is not
\* called when the repository holds the id with followers_fetch_attempted
\* set, and fetch_profile is called once, for that id only, when the
\* repository has no record of it or holds it with the flag unset, as after
\* a followers request that raised in an earlier crawl.
C15_CacheOrFresh ==
  [][(Dequeues /\ Head(queue)[2] <= depth_limit) =>
       IF HeldAttempted(Head(queue)[1])
       THEN fetch_log' = fetch_log
       ELSE /\ Head(queue)[1] \notin DOMAIN fetch_log
            /\ DOMAIN fetch_log' = DOMAIN fetch_log \cup {Head(queue)[1]}
            /\ \A i \in DOMAIN fetch_log : fetch_log'[i] = fetch_log[i]]_vars

\* the second crawl serves A from the repository and fetches B again: B's
\* record, made by the first crawl, still has the flag unset
C15_Witness ==
  /\ runs = 1
  /\ pc = "crawling"
  /\ "A" \in visited \ DOMAIN fetch_log
  /\ "B" \in DOMAIN fetch_log
  /\ fetch_log["B"] = "connections_raise"
  /\ ~repo_profiles["B"].followers_fetch_attempted
  /\ \E k \in 1..Len(load_edges(store)) : load_edges(store)[k].source_id = "B"

\* the dequeued id is handed to fetch_profile in this step and the overview
\* request returns
FetchedOverview ==
  /\ Dequeues
  /\ Head(queue)[1] \notin DOMAIN fetch_log
  /\ Head(queue)[1] \in DOMAIN fetch_log'
  /\ fetch_log'[Head(queue)[1]] # "overview_raises"

\* the follower count of the profile the pass of this step works with: the
\* count of the overview when the fetch returned, else that of the record
ResolvedFollowers ==
  IF FetchedOverview THEN web.count[Head(queue)[1]]
  ELSE IF Head(queue)[1] \in DOMAIN repo_profiles
  THEN repo_profiles[Head(queue)[1]].followers
  ELSE None

\* the step takes the entry off the queue and does nothing else
OnlyDequeued ==
  /\ queue' = Tail(queue)
  /\ UNCHANGED <<repo_profiles, repo_edges, queued, store, upserted, created>>

\* C16: for every follower_threshold t >= 0, a dequeued profile whose
\* resolved follower count f is known with f >= t (f = t and t = 0, f = 0
\* included) is neither upserted nor given an edge, and none of its
\* neighbours is enqueued in that pass.
C16_ThresholdAtOrAbove ==
  [][(Dequeues /\ ResolvedFollowers # None
               /\ ResolvedFollowers[1] >= settings.follower_threshold)
       => OnlyDequeued]_vars

\* the follower count the overview of id shows is known and at or above the
\* download limit
AtLimit(id) ==
  web.count[id] # None /\ web.count[id][1] >= settings.followers_download_limit

\* what fetch_profile returns for id when the limit applies: the profile
\* marked attempted and oversized, an empty connection map, and nothing of
\* what a followers request would have left on it
LimitResult(id) ==
  \A outcome \in FetchOutcomes \ {"overview_raises"} :
     LET r == fetch_profile(repo_profiles, settings, web, id, outcome)
     IN /\ r.profile.followers_fetch_attempted
        /\ r.profile.followers_oversized
        /\ r.connections = <<>>
        /\ r.profile.is_private = (outcome = "private")

\* the crawl upserts the profile the limit applied to when its count is
\* below the follower threshold
LimitStep ==
  (FetchedOverview /\ ResolvedFollowers[1] < settings.follower_threshold) =>
     /\ Head(queue)[1] \in upserted'
     /\ repo_profiles'[Head(queue)[1]].followers_oversized
     /\ repo_profiles'[Head(queue)[1]].followers_fetch_attempted
     /\ created' = created

RequestsFollowers(id) ==
  ~OverDownloadLimit(fetch_profile_overview(web, id, FALSE), settings)

\* the flag values fetch_profile carries forward from the existing record
Carried(id) ==
  IF id \in DOMAIN repo_profiles THEN repo_profiles[id] ELSE Profile(id, None, FALSE)

\* C18: when the followers request returns an accessible list, the returned
\* profile has followers_fetch_attempted set, and followers_fetched is set
\* only if the list is non-empty; with an empty accessible list
\* followers_fetched keeps the carried-forward value (false for a profile
\* never seen).
C18_AccessibleList ==
  [][(FetchedWith("accessible") /\ RequestsFollowers(Head(queue)[1])
        /\ Head(queue)[1] \in upserted') =>
       /\ repo_profiles'[Head(queue)[1]].followers_fetch_attempted
       /\ repo_profiles'[Head(queue)[1]].followers_fetched =
            (web.list[Head(queue)[1]] # <<>> \/ Carried(Head(queue)[1]).followers_fetched)
     ]_vars

\* what fetch_profile returns for id when the overview is private, and when
\* the followers request is made and comes back inaccessible
PrivateResult(id) ==
  LET r == fetch_profile(repo_profiles, settings, web, id, "private")
  IN /\ r.profile.is_private
     /\ r.profile.followers_fetch_attempted
     /\ r.connections = <<>>
     /\ r = fetch_profile(repo_profiles, settings,
                          [web EXCEPT !.list[id] = <<>>], id, "private")

InaccessibleResult(id) ==
  LET r == fetch_profile(repo_profiles, settings, web, id, "inaccessible")
  IN /\ r.profile.is_private
     /\ r.profile.followers_fetch_attempted
     /\ r.connections = <<>>
     /\ r.profile.followers_fetched = Carried(id).followers_fetched
     /\ r.profile.followers_oversized = Carried(id).followers_oversized

\* C19: a profile whose overview is private is returned with
\* followers_fetch_attempted set and without a followers request; a profile
\* whose follower list comes back inaccessible is returned with is_private
\* and followers_fetch_attempted set, no connections, and followers_fetched
\* and followers_oversized as carried forward from the existing record.
C19_PrivateInaccessible ==
  \A id \in Ids :
     /\ PrivateResult(id)
     /\ RequestsFollowers(id) => InaccessibleResult(id)

\* the crawl fetched B, whose follower list came back inaccessible, and C,
\* whose overview is private, and stored both as private and attempted,
\* while A's record carries followers_fetched forward
C19_Witness ==
  /\ {"B", "C"} \subseteq DOMAIN fetch_log
  /\ fetch_log["B"] = "inaccessible"
  /\ RequestsFollowers("B")
  /\ web.list["B"] # <<>>
  /\ fetch_log["C"] = "private"
  /\ {"B", "C"} \subseteq upserted
  /\ repo_profiles["B"].is_private /\ repo_profiles["B"].followers_fetch_attempted
  /\ ~repo_profiles["B"].followers_fetched
  /\ repo_profiles["C"].is_private /\ repo_profiles["C"].followers_fetch_attempted
  /\ \A c \in created : c.subject = "A"
  /\ RequestsFollowers("A")
  /\ repo_profiles["A"].followers_fetched

\* s is a subsequence of t: the elements of s occur in t in the same order
RECURSIVE IsSubsequence(_, _)
IsSubsequence(s, t) ==
  IF s = <<>> THEN TRUE
  ELSE IF t = <<>> THEN FALSE
  ELSE IF Head(s) = Head(t) THEN IsSubsequence(Tail(s), Tail(t))
  ELSE IsSubsequence(s, Tail(t))

\* the ids of a sequence of queue entries
RECURSIVE EntryIds(_)
EntryIds(q) ==
  IF q = <<>> THEN <<>> ELSE <<Head(q)[1]>> \o EntryIds(Tail(q))

\* the neighbour ids in the order the fetch of this step, or the scan of the
\* cached edges, returns them
ReturnedOrder ==
  IF Head(queue)[1] \in DOMAIN fetch_log' \ DOMAIN fetch_log
  THEN web.list[Head(queue)[1]]
  ELSE follower_ids(repo_edges, Head(queue)[1])

\* C20: in every crawl the depths of the successively dequeued entries are
\* non-decreasing (no entry left in or added to the queue is shallower than
\* the one dequeued), every dequeued depth is at most the depth limit, and
\* the neighbours of one subject are appended to the queue in the order the
\* fetch or the cached edge scan returned them.
C20_BreadthFirstOrder ==
  [][Dequeues =>
       /\ Head(queue)[2] <= depth_limit
       /\ \A k \in 1..Len(queue') : queue'[k][2] >= Head(queue)[2]
       /\ Len(queue') >= Len(queue) - 1
       /\ SubSeq(queue', 1, Len(queue) - 1) = Tail(queue)
       /\ IsSubsequence(EntryIds(SubSeq(queue', Len(queue), Len(queue'))),
                        ReturnedOrder)
     ]_vars

\* the crawl under depth limit 2 dequeued A and B at depths 0 and 1, C waits
\* at depth 1 behind where B stood, and B's follower list named A and C
C20_Witness ==
  /\ pc = "crawling"
  /\ depth_limit = 2
  /\ web.list["A"] = <<"B", "C">>
  /\ web.list["B"] = <<"A", "C">>
  /\ visited = {"A", "B"}
  /\ queue = << <<"C", 1>> >>
  /\ \E c \in created : c.subject = "B" /\ c.neighbor = "C"

\* the ids of the entries waiting in the queue
QueueIds == {queue[k][1] : k \in 1..Len(queue)}

\* the entries this iteration appended behind the ones that were waiting
Appended == SubSeq(queue', Len(queue), Len(queue'))

\* C21: each id is scheduled at most once per crawl and the crawl
\* terminates: the queue never holds an id twice, every id in the queue or
\* in visited is in queued, an iteration appends a neighbour only one level
\* below the dequeued entry, within the depth limit, and only if it was
\* neither visited nor queued, the dequeued id was not dequeued or fetched
\* before in this crawl, and whatever the fetches answer a running crawl
\* reaches an empty queue.
C21_ScheduledOnceAndTerminates ==
  /\ [](\A i, j \in 1..Len(queue) : queue[i][1] = queue[j][1] => i = j)
  /\ [](QueueIds \cup visited \subseteq queued)
  /\ [][LoopIteration =>
          /\ Head(queue)[1] \notin visited
          /\ Head(queue)[1] \notin DOMAIN fetch_log
          /\ Head(queue)[1] \in visited'
          /\ SubSeq(queue', 1, Len(queue) - 1) = Tail(queue)
          /\ \A k \in 1..Len(Appended) :
                /\ Appended[k][2] = Head(queue)[2] + 1
                /\ Appended[k][2] <= depth_limit
                /\ Appended[k][1] \notin visited'
                /\ Appended[k][1] \notin queued
                /\ Appended[k][1] \in queued'
       ]_vars
  /\ ((pc = "crawling") ~> (queue = <<>>))

\* the crawl under depth limit 2 ended with an empty queue after A, B and C
\* were each dequeued once, although B's list named A and C again and C's
\* list named B, and the fetch of C raised
C21_Witness ==
  /\ pc = "crawling"
  /\ depth_limit = 2
  /\ queue = <<>>
  /\ visited = {"A", "B", "C"}
  /\ queued = {"A", "B", "C"}
  /\ web.list["A"] = <<"B", "C">>
  /\ web.list["B"] = <<"A", "C">>
  /\ web.list["C"] = <<"B">>
  /\ fetch_log["B"] = "accessible"
  /\ fetch_log["C"] = "overview_raises"
  /\ \E c \in created : c.subject = "B" /\ c.neighbor = "C"

\* the edge triples the repository gained in this crawl
CreatedTriples == {Triple(c.edge) : c \in created}

\* C22: per-node persistence bounds the loss: whenever a crawl stands at the
\* head of its loop, about to dequeue a node or to return, every profile id
\* and every edge triple the repository gained while processing the earlier
\* nodes of this crawl is in the master tier, and so is everything else the
\* repository holds.
C22_PerNodePersistence ==
  pc = "crawling" =>
    /\ upserted \subseteq MasterIds
    /\ CreatedTriples \subseteq EntryKeys(MasterEdges)
    /\ DOMAIN repo_profiles \subseteq MasterIds
    /\ EntryKeys(repo_edges) \subseteq EntryKeys(MasterEdges)

\* the first crawl processed A and gained B, C and their follower edges; B
\* is about to be dequeued and all of it is in the master tier
C22_Witness ==
  /\ pc = "crawling"
  /\ runs = 0
  /\ visited = {"A"}
  /\ queue # <<>> /\ Head(queue)[1] = "B"
  /\ upserted = {"A", "B", "C"}
  /\ Cardinality(CreatedTriples) = 2
  /\ MasterIds = {"A", "B", "C"}
  /\ CreatedTriples = EntryKeys(MasterEdges)

\* C27: referential integrity: starting from an empty store, in every state
\* the crawls and their persists reach, the source_id and the target_id of
\* every edge of the repository are keys of the repository's profiles, and
\* the same holds between the edges and the profiles of the master tier as
\* every persist leaves it.
C27_ReferentialIntegrity ==
  /\ Endpoints(repo_edges) \subseteq DOMAIN repo_profiles
  /\ Endpoints(MasterEdges) \subseteq MasterIds

\* the second process finished: its repository, loaded from what the first
\* persisted, and the master tier hold edges among A, B and C, B and C
\* known only as neighbours of the profiles that listed them
C27_Witness ==
  /\ pc = "idle"
  /\ runs = 2
  /\ op = "persist_again"
  /\ Endpoints(repo_edges) = {"A", "B", "C"}
  /\ Endpoints(MasterEdges) = {"A", "B", "C"}
  /\ Len(MasterEdges) >= 3
  /\ MasterIds = {"A", "B", "C"}
  /\ upserted # {}

\* a construction of the repository ends in this step, no load having raised
Constructs == api_call'.name = "construct"

\* id is the target of at least one follower edge the store holds
FollowedInStore(id) ==
  \E k \in 1..Len(EdgesPath(store).data) :
     /\ EdgesPath(store).data[k].relation_type = "follower"
     /\ EdgesPath(store).data[k].target_id = id

\* C23: after a GraphRepository is constructed from a readable store, every
\* loaded profile that is the target of at least one loaded follower edge
\* has followers_fetch_attempted and followers_fetched set and is otherwise
\* as persisted, every other loaded profile is exactly as persisted, and
\* the repository holds the loaded profiles and edges and nothing else.
C23_BackfillOnLoad ==
  [][Constructs =>
       /\ DOMAIN repo_profiles' = DOMAIN ProfilesPath(store).data
       /\ repo_edges' = EdgesPath(store).data
       /\ \A i \in DOMAIN repo_profiles' :
             IF FollowedInStore(i)
             THEN repo_profiles'[i] =
                    [ProfilesPath(store).data[i] EXCEPT
                       !.followers_fetch_attempted = TRUE,
                       !.followers_fetched = TRUE]
             ELSE repo_profiles'[i] = ProfilesPath(store).data[i]
     ]_vars

\* the repository was constructed on a store whose master tier holds A with
\* both flags false and B with only the attempt flag, a follower edge from B
\* to A and a following edge from A to B: A came out backfilled, B as stored
C23_Witness ==
  /\ api_call.name = "construct"
  /\ store.master_profiles.exists
  /\ DOMAIN store.master_profiles.data = {"A", "B"}
  /\ ~store.master_profiles.data["A"].followers_fetch_attempted
  /\ ~store.master_profiles.data["A"].followers_fetched
  /\ store.master_profiles.data["B"].followers_fetch_attempted
  /\ ~store.master_profiles.data["B"].followers_fetched
  /\ EntryKeys(store.master_edges.data) =
       {<<"B", "A", "follower">>, <<"A", "B", "following">>}
  /\ repo_profiles["A"].followers_fetch_attempted
  /\ repo_profiles["A"].followers_fetched
  /\ repo_profiles["B"] = store.master_profiles.data["B"]

\* a construction ends in this step after one of the loads raised
ConstructsAfterRaise ==
  api_call'.name \in {"construct_load_profiles_raised", "construct_load_edges_raised"}

\* C25: a load failure resets the whole in-memory graph: when load_profiles
\* or load_edges raises during construction, the construction still ends,
\* with the repository's profiles and edges both empty, also when the
\* profiles had loaded and only the edges failed, so that the cache test of
\* a following crawl fails for every profile.
C25_LoadFailureResets ==
  [][ConstructsAfterRaise =>
       /\ repo_profiles' = EmptyMap
       /\ repo_edges' = <<>>
       /\ \A id \in Ids : ~UseCache(find_profile(repo_profiles', id))
     ]_vars

\* load_edges raised on a store whose profiles file holds A and B with the
\* attempt flag set: the repository came out with no profile and no edge
C25_Witness ==
  /\ api_call.name = "construct_load_edges_raised"
  /\ DOMAIN ProfilesPath(store).data = {"A", "B"}
  /\ \A i \in {"A", "B"} : UseCache(find_profile(ProfilesPath(store).data, i))
  /\ EdgesPath(store).data # <<>>
  /\ repo_profiles = EmptyMap
  /\ repo_edges = <<>>

\* a JsonGraphStore is constructed on the directory in this step
InitialisesStore == api_call'.name = "init_store" /\ op' # op

\* C24: legacy migration happens exactly once and never overwrites: an
\* initialisation that finds a flat profiles.json (resp. edges.json) and no
\* master file of that name leaves the master file holding the legacy
\* content and the flat file gone; a flat file found while the master file
\* exists leaves both as they are; the current tier is untouched; and any
\* later initialisation on the same directory changes no file.
C24_LegacyMigration ==
  [][InitialisesStore =>
       /\ IF store.flat_profiles.exists /\ ~store.master_profiles.exists
          THEN /\ store'.master_profiles = store.flat_profiles
               /\ ~store'.flat_profiles.exists
          ELSE /\ store'.master_profiles = store.master_profiles
               /\ store'.flat_profiles = store.flat_profiles
       /\ IF store.flat_edges.exists /\ ~store.master_edges.exists
          THEN /\ store'.master_edges = store.flat_edges
               /\ ~store'.flat_edges.exists
          ELSE /\ store'.master_edges = store.master_edges
               /\ store'.flat_edges = store.flat_edges
       /\ store'.profiles = store.profiles
       /\ store'.edges = store.edges
       /\ op # "init" => store' = store
     ]_vars

\* the directory was initialised a second time: the flat profiles file of
\* the first initialisation is gone and master holds a profile, while the
\* flat edges file, found beside a master edges file with other content,
\* is still there and master's edges are not the legacy ones
C24_Witness ==
  /\ op = "store_initialised_again"
  /\ api_call.name = "init_store"
  /\ ~store.flat_profiles.exists
  /\ store.master_profiles.exists
  /\ DOMAIN store.master_profiles.data = {"A"}
  /\ ~store.profiles.exists
  /\ store.flat_edges.exists
  /\ store.master_edges.exists
  /\ store.master_edges.data # store.flat_edges.data
  /\ ever_ids = {}

\* no process is inside persist
WritersIdle == \A w \in Procs : writers.proc[w].pc = "idle"

\* C26: concurrent writers can lose master updates: as long as no persist
\* began while another process was inside its own, the master tier holds,
\* whenever no persist is running, every profile id and every edge triple
\* any process persisted; with two processes interleaving the steps of
\* save_profiles and save_edges this fails (the state of C26_Witness).
C26_SingleWriterKeepsMaster ==
  (WritersIdle /\ ~writers.overlapped) =>
     /\ ever_ids \subseteq MasterIds
     /\ ever_triples \subseteq EntryKeys(MasterEdges)

\* both processes have returned from persist, having read the master files
\* before the other wrote them: master lacks a profile id and an edge triple
\* that one of them persisted
C26_Witness ==
  /\ WritersIdle
  /\ writers.overlapped
  /\ ever_ids \ MasterIds # {}
  /\ ever_triples \ EntryKeys(MasterEdges) # {}
  /\ Cardinality(MasterIds) = 1
  /\ Len(MasterEdges) = 1

\* C28: a repeat crawl served from the cache is equivalent to the first:
\* with the fetcher answering as before and the follow graph unchanged, a
\* crawl with the same root and depth limit on a repository loaded from what
\* the previous crawl persisted has, when its queue is empty, dequeued the
\* same set of ids as the previous crawl, and from the end of the previous
\* crawl on the master tier holds the same profile ids and the same edge
\* triples.
C28_RepeatCrawlEquivalent ==
  (runs >= 1 /\ pc = "crawling" /\ depth_limit = prev.depth_limit) =>
    /\ queue = <<>> => visited = prev.visited
    /\ MasterIds = prev.master_ids
    /\ EntryKeys(MasterEdges) = prev.master_triples

\* the second crawl under depth limit 2 ended having dequeued A, B and C as
\* the first did, A served from the cache with its followers re-derived
\* from the stored follower edges, C fetched again because its fetch had
\* raised the first time
C28_Witness ==
  /\ runs = 1
  /\ pc = "crawling"
  /\ queue = <<>>
  /\ depth_limit = 2
  /\ prev.depth_limit = 2
  /\ prev.visited = {"A", "B", "C"}
  /\ visited = {"A", "B", "C"}
  /\ prev.fetch_log["A"] = "accessible"
  /\ prev.fetch_log["C"] = "overview_raises"
  /\ "A" \notin DOMAIN fetch_log
  /\ "C" \in DOMAIN fetch_log
  /\ \E c \in created : c.subject = "A" /\ c.neighbor = "B"
  /\ Len(MasterEdges) >= 2

====
